---- MODULE Spec2Model ----
(***************************************************************************)
(* Model of the VS Code AI extension (src/src/extension.ts and             *)
(* src/src/ai/registry.ts): adapter resolution at activation, the          *)
(* explainSelection / explainActiveFile command handlers, the withTimeout  *)
(* guard and the status indicator.                                         *)
(*                                                                         *)
(* Every action is one run-to-completion step of the JavaScript event      *)
(* loop: the synchronous part of a handler up to its next await, together  *)
(* with the microtasks it schedules.  Timers are macrotasks, so a timer    *)
(* callback never runs between the settlement of a promise and the         *)
(* continuations awaiting it.                                              *)
(*                                                                         *)
(* The host is read, never written: the value of vsCodeAI.enableAI and     *)
(* the active editor are inputs of the step that reads them, so that       *)
(* between two reads the user may have changed them in any way.            *)
(***************************************************************************)
EXTENDS Integers, Sequences, FiniteSets, TLC

\* ------------------------------------------------------------------------
\* Bounds
\* ------------------------------------------------------------------------
MaxRequests == 2      \* explain command invocations in one session
MaxAdapters == 2      \* adapters in a registry handed to getActiveAdapter
MaxText == 4          \* length of the texts handed to LocalExplainerStub
MaxTail == 2          \* length of the free ending of an explanation

Requests == 1..MaxRequests

\* ------------------------------------------------------------------------
\* Events a handler emits, in program order
\* ------------------------------------------------------------------------
Ev(k, v) == [k |-> k, v |-> v]

\* number of events of kind k in the sequence s
Count(s, k) == Len(SelectSeq(s, LAMBDA e : e.k = k))

\* number of events of kind k with detail v in the sequence s
CountV(s, k, v) == Len(SelectSeq(s, LAMBDA e : e.k = k /\ e.v = v))

\* the details of the events of kind k, in order
RECURSIVE Details(_, _)
Details(s, k) ==
  IF s = << >> THEN << >>
  ELSE IF Head(s).k = k THEN <<Head(s).v>> \o Details(Tail(s), k)
  ELSE Details(Tail(s), k)

\* ------------------------------------------------------------------------
\* What a read of vscode.window.activeTextEditor can return
\* ------------------------------------------------------------------------
NoEditor ==
  [open |-> FALSE, languageId |-> "", text |-> << >>, selection |-> << >>]

Editors ==
  { NoEditor,
    [open |-> TRUE, languageId |-> "typescript",
     text |-> <<"c", "LF", "c">>, selection |-> <<"c", "LF">>],
    [open |-> TRUE, languageId |-> "python",
     text |-> << >>, selection |-> << >>] }

\* a count that leaves out the empty segment after a trailing line break
SplitLength_noTrailing(text) ==
  Cardinality({i \in 1..Len(text) : text[i] = "LF" /\ i < Len(text)}) + 1

\* text.split(/\r?\n/).length : one more than the number of line feeds
SplitLength(text) ==
  1 + Cardinality({i \in 1..Len(text) : text[i] = "LF"})

\* the characters of a text: a line feed, a carriage return, any other
Chars == {"c", "CR", "LF"}

\* the texts of at most n characters
Texts(n) == UNION {[1..k -> Chars] : k \in 0..n}

\* the members of a set of numbers in increasing order
RECURSIVE Ascending(_)
Ascending(S) ==
  IF S = {} THEN << >>
  ELSE LET m == CHOOSE x \in S : \A y \in S : x <= y
       IN  <<m>> \o Ascending(S \ {m})

\* text.split(/\r?\n/): the segments between the line feeds; a carriage
\* return right before a line feed belongs to the line break
Split(text) ==
  LET n == Len(text)
      lf == Ascending({i \in 1..n : text[i] = "LF"})
      from(k) == IF k = 1 THEN 1 ELSE lf[k - 1] + 1
      to(k) == IF k > Len(lf) THEN n
               ELSE IF lf[k] > 1 /\ text[lf[k] - 1] = "CR" THEN lf[k] - 2
               ELSE lf[k] - 1
  IN  [k \in 1..(Len(lf) + 1) |-> SubSeq(text, from(k), to(k))]

\* lines.join("\n")
RECURSIVE Join(_)
Join(lines) ==
  IF lines = << >> THEN << >>
  ELSE IF Len(lines) = 1 THEN lines[1]
  ELSE lines[1] \o <<"LF">> \o Join(Tail(lines))

\* ------------------------------------------------------------------------
\* Adapters and the registry
\* ------------------------------------------------------------------------
LocalAIAdapter ==
  [id |-> "local", isAvailable |-> TRUE, explainer |-> "LocalExplainerStub"]

\* a registry that also registers the mock remote adapter
RegisteredAdapters_withMock ==
  <<LocalAIAdapter,
    [id |-> "remote-mock", isAvailable |-> TRUE, explainer |-> "remote-mock"]>>

\* the list built by the registry constructor
RegisteredAdapters == <<LocalAIAdapter>>

\* values the setting vsCodeAI.adapter is given in the model
AdapterIds == {"local", "remote", "remote-mock"}

\* the setting vsCodeAI.adapter left unset by the user
NotConfigured == "(unset)"

\* a lookup that falls back on another id when the setting is unset
SelectedId_remote(setting) ==
  IF setting = NotConfigured THEN "remote" ELSE setting

\* config.get<string>("adapter", "local")
SelectedId(setting) ==
  IF setting = NotConfigured THEN "local" ELSE setting

NoAdapter == [id |-> "", isAvailable |-> FALSE, explainer |-> "null"]

\* this.adapters.find(a => a.id === selectedId)
FindAdapter(adapters, selectedId) ==
  LET hits == {i \in 1..Len(adapters) : adapters[i].id = selectedId}
  IN  IF hits = {} THEN NoAdapter
      ELSE adapters[CHOOSE i \in hits : \A j \in hits : i <= j]

\* a resolution that returns the adapter without asking isAvailable()
getActiveAdapter_unchecked(adapters, selectedId) ==
  LET adapter == FindAdapter(adapters, selectedId)
  IN  IF adapter = NoAdapter
        THEN [ok |-> FALSE, adapter |-> NoAdapter, error |-> "not registered"]
      ELSE [ok |-> TRUE, adapter |-> adapter, error |-> ""]

\* AIAdapterRegistry.getActiveAdapter
getActiveAdapter(adapters, selectedId) ==
  LET adapter == FindAdapter(adapters, selectedId)
  IN  IF adapter = NoAdapter
        THEN [ok |-> FALSE, adapter |-> NoAdapter, error |-> "not registered"]
      ELSE IF ~adapter.isAvailable
        THEN [ok |-> FALSE, adapter |-> NoAdapter, error |-> "not available"]
      ELSE [ok |-> TRUE, adapter |-> adapter, error |-> ""]

\* an adapter object: its id, what isAvailable() returns, its explainer
Adapter(id, available) ==
  [id |-> id, isAvailable |-> available,
   explainer |-> IF id = "local" THEN "LocalExplainerStub" ELSE id]

AdapterObjects == {Adapter(id, av) : id \in AdapterIds, av \in BOOLEAN}

\* the registries getActiveAdapter is exercised on: ordered, ids unique
AdapterLists ==
  {l \in UNION {[1..n -> AdapterObjects] : n \in 0..MaxAdapters} :
     \A i, j \in 1..Len(l) : l[i].id = l[j].id => i = j}

\* no resolution has been made
NoResult == [ok |-> FALSE, adapter |-> NoAdapter, error |-> "(none)"]

\* no registry is under examination
NoResolve ==
  [adapters |-> << >>, setting |-> NotConfigured, result |-> NoResult]

\* ------------------------------------------------------------------------
\* Explanations
\* ------------------------------------------------------------------------
NoExplanation == [header |-> "", language |-> "", lines |-> 0, characters |-> 0]

\* LocalExplainerStub.explain
LocalExplain(input, language) ==
  [header |-> "Local placeholder explanation (no AI used).",
   language |-> language,
   lines |-> SplitLength(input),
   characters |-> Len(input)]

\* errors an explainer behind the AIExplainer contract rejects with
ExplainErrors == {"INVALID_INPUT", "REJECTED"}

\* settlement of a promise
Pending == [st |-> "pending", value |-> NoExplanation, error |-> ""]
Unset == [st |-> "none", value |-> NoExplanation, error |-> ""]
Fulfilled(v) == [st |-> "fulfilled", value |-> v, error |-> ""]
Rejected(e) == [st |-> "rejected", value |-> NoExplanation, error |-> e]

TimeoutError == "TIMEOUT"

\* the deadline both handlers pass to withTimeout
DeadlineMs == 2000

\* ------------------------------------------------------------------------
\* Output limiting and presentation
\* ------------------------------------------------------------------------
MAX_EXPLANATION_LINES == 12
MAX_EXPLANATION_CHARS == 500

\* a limiter that keeps one line more than the limit
limitExplanation_oneMore(text) ==
  LET byChars == Len(text) > MAX_EXPLANATION_CHARS
      limitedByChars ==
        IF byChars THEN SubSeq(text, 1, MAX_EXPLANATION_CHARS) ELSE text
      lines == Split(limitedByChars)
      byLines == Len(lines) > MAX_EXPLANATION_LINES
  IN  [text |-> IF byLines
                  THEN Join(SubSeq(lines, 1, MAX_EXPLANATION_LINES + 1))
                ELSE limitedByChars,
       truncated |-> byChars \/ byLines]

\* a limiter that cuts the lines first and the characters after that
limitExplanation_linesFirst(text) ==
  LET lines == Split(text)
      byLines == Len(lines) > MAX_EXPLANATION_LINES
      limitedByLines ==
        IF byLines THEN Join(SubSeq(lines, 1, MAX_EXPLANATION_LINES))
        ELSE text
      byChars == Len(limitedByLines) > MAX_EXPLANATION_CHARS
  IN  [text |-> IF byChars
                  THEN SubSeq(limitedByLines, 1, MAX_EXPLANATION_CHARS)
                ELSE limitedByLines,
       truncated |-> byLines \/ byChars]

\* a limiter that already truncates a text that is exactly at a limit
limitExplanation_atLimit(text) ==
  LET byChars == Len(text) >= MAX_EXPLANATION_CHARS
      limitedByChars ==
        IF byChars THEN SubSeq(text, 1, MAX_EXPLANATION_CHARS) ELSE text
      lines == Split(limitedByChars)
      byLines == Len(lines) >= MAX_EXPLANATION_LINES
  IN  [text |-> IF byLines
                  THEN Join(SubSeq(lines, 1, MAX_EXPLANATION_LINES))
                ELSE limitedByChars,
       truncated |-> byChars \/ byLines]

\* limitExplanation(text)
limitExplanation(text) ==
  LET byChars == Len(text) > MAX_EXPLANATION_CHARS
      limitedByChars ==
        IF byChars THEN SubSeq(text, 1, MAX_EXPLANATION_CHARS) ELSE text
      lines == Split(limitedByChars)
      byLines == Len(lines) > MAX_EXPLANATION_LINES
  IN  [text |-> IF byLines
                  THEN Join(SubSeq(lines, 1, MAX_EXPLANATION_LINES))
                ELSE limitedByChars,
       truncated |-> byChars \/ byLines]

\* the argument of one output.appendLine call: a fixed string, the limited
\* explanation, or a metadata line with its value
Literal(s) == [k |-> "literal", lit |-> s, text |-> << >>, num |-> 0]
TextLine(t) == [k |-> "text", lit |-> "", text |-> t, num |-> 0]
LanguageLine(l) == [k |-> "language", lit |-> l, text |-> << >>, num |-> 0]
LinesLine(n) == [k |-> "lines", lit |-> "", text |-> << >>, num |-> n]
CharactersLine(n) ==
  [k |-> "characters", lit |-> "", text |-> << >>, num |-> n]

\* the meta argument the handlers build from the text they sent to explain()
Meta(language, text) ==
  [language |-> language, lines |-> SplitLength(text),
   characters |-> Len(text)]

\* a presenter that shows the counts of the explanation it displays
presentExplanation_ownCounts(explanation, meta) ==
  LET limited == limitExplanation(explanation)
  IN  <<Literal("=== AI Explanation ==="), Literal(""),
        Literal("Summary:"), TextLine(limited.text)>>
      \o (IF limited.truncated
            THEN <<Literal(""), Literal("[Output truncated]")>>
          ELSE << >>)
      \o <<Literal(""), Literal("Metadata:"),
           LanguageLine(meta.language),
           LinesLine(SplitLength(limited.text)),
           CharactersLine(Len(limited.text))>>

\* presentExplanation(explanation, meta): the lines appended to the output
\* channel, in order
presentExplanation(explanation, meta) ==
  LET limited == limitExplanation(explanation)
  IN  <<Literal("=== AI Explanation ==="), Literal(""),
        Literal("Summary:"), TextLine(limited.text)>>
      \o (IF limited.truncated
            THEN <<Literal(""), Literal("[Output truncated]")>>
          ELSE << >>)
      \o <<Literal(""), Literal("Metadata:"),
           LanguageLine(meta.language),
           LinesLine(meta.lines),
           CharactersLine(meta.characters)>>

\* n copies of a text, one after the other
Repeat(unit, n) ==
  [i \in 1..(n * Len(unit)) |-> unit[((i - 1) % Len(unit)) + 1]]

\* one line of an explanation with its line break
LineUnits ==
  {<<"LF">>, <<"CR", "LF">>, <<"c", "LF">>, <<"CR", "CR", "LF">>}

\* explanations an explainer may return, around both limits: k lines of
\* one kind, a filling that brings the text to a given length, a free
\* ending
ExplanationTexts ==
  {Repeat(unit, k)
     \o Repeat(<<"c">>,
               IF len > k * Len(unit) + Len(tail)
                 THEN len - k * Len(unit) - Len(tail) ELSE 0)
     \o tail :
       unit \in LineUnits,
       k \in {0, MAX_EXPLANATION_LINES - 1, MAX_EXPLANATION_LINES,
              MAX_EXPLANATION_LINES + 1},
       len \in {0, MAX_EXPLANATION_CHARS - 1, MAX_EXPLANATION_CHARS,
                MAX_EXPLANATION_CHARS + 1, MAX_EXPLANATION_CHARS + 2},
       tail \in Texts(MaxTail)}

\* the texts and language ids the handlers pass on from an open editor
HandlerInputs ==
  LET open == {e \in Editors : e.open}
  IN  {[text |-> t, language |-> e.languageId] :
         e \in open, t \in UNION {{d.text, d.selection} : d \in open}}

\* limitExplanation has not been applied
NoLimit == [applied |-> FALSE, text |-> << >>, truncated |-> FALSE]

\* what an application of limitExplanation returned
Limit(res) ==
  [applied |-> TRUE, text |-> res.text, truncated |-> res.truncated]

\* nothing has been explained, limited or presented
NoPresent ==
  [input |-> << >>, language |-> "", explanation |-> << >>,
   result |-> Unset, output |-> << >>, limited |-> NoLimit,
   again |-> NoLimit]

\* ------------------------------------------------------------------------
\* State
\* ------------------------------------------------------------------------
VARIABLES
  activated,         \* activate() has run
  adapterSetting,    \* setting vsCodeAI.adapter, as activate() reads it
  explainer,         \* the explainer captured by activate(), or "null"
  status,            \* StatusIndicator text after "VS Code AI: "
  sessionOut,        \* events emitted by activate()
  startOut,          \* events emitted by the latest run of the start command
  req,               \* the invocations of the explain commands
  resolve,           \* a registry, a setting and getActiveAdapter's result
  present            \* a text, its explanation and what is shown of them

vars ==
  <<activated, adapterSetting, explainer, status, sessionOut, startOut, req,
    resolve, present>>

IdleRequest ==
  [pc |-> "idle", mode |-> "none", enabled |-> "unread",
   text |-> << >>, editor |-> NoEditor, language |-> "",
   consent |-> "none", flagAtExplain |-> "unread", deadline |-> 0,
   op |-> Unset, early |-> FALSE,
   timer |-> "none", cbCalls |-> 0, wt |-> Unset,
   reports |-> << >>, out |-> << >>]

Init ==
  /\ activated = FALSE
  /\ adapterSetting \in AdapterIds
  /\ explainer = "null"
  /\ status = "Ready"
  /\ sessionOut = << >>
  /\ startOut = << >>
  /\ req = [r \in Requests |-> IdleRequest]
  /\ resolve = NoResolve
  /\ present = NoPresent

\* ------------------------------------------------------------------------
\* activate()
\* ------------------------------------------------------------------------
Activate ==
  /\ ~activated
  /\ activated' = TRUE
  /\ LET res == getActiveAdapter(RegisteredAdapters,
                              SelectedId(adapterSetting))
     IN  IF res.ok
           THEN /\ explainer' = res.adapter.explainer
                /\ status' = "Ready"
                /\ sessionOut' =
                     <<Ev("log.info", "Extension activated."),
                       Ev("status", "Ready")>>
           ELSE /\ explainer' = "null"
                /\ status' = "Disabled (invalid adapter)"
                /\ sessionOut' =
                     <<Ev("log.warn", res.error),
                       Ev("status", "Disabled (invalid adapter)"),
                       Ev("error", "Selected AI adapter is not available.")>>
  /\ UNCHANGED <<adapterSetting, startOut, req, resolve, present>>

\* the vsCodeAI.start command
StartCommand ==
  /\ activated
  /\ startOut' =
       <<Ev("log.info", "Start command executed."),
         Ev("status", "Ready"),
         Ev("info", "VS Code AI is active (no action performed).")>>
  /\ status' = "Ready"
  /\ UNCHANGED <<activated, adapterSetting, explainer, sessionOut, req,
                 resolve, present>>

\* ------------------------------------------------------------------------
\* Pieces of the command handlers
\* ------------------------------------------------------------------------
\* an indicator that keeps showing Completed once a request has completed
StatusAfter_keepsCompleted(current, evs) ==
  LET ws == Details(evs, "status")
  IN  IF ws = << >> \/ current = "Completed" THEN current ELSE ws[Len(ws)]

\* the statuses written by a sequence of events; the last one is displayed
StatusAfter(current, evs) ==
  LET ws == Details(evs, "status")
  IN  IF ws = << >> THEN current ELSE ws[Len(ws)]

\* handlers that resolve the adapter again for every request
ServingExplainer_resolved(captured, setting) ==
  LET res == getActiveAdapter(RegisteredAdapters, SelectedId(setting))
  IN  IF res.ok THEN res.adapter.explainer ELSE "null"

\* the explainer a handler uses: the variable captured by its closure,
\* whatever the setting vsCodeAI.adapter is by now
ServingExplainer(captured, setting) == captured

\* handlers that never test the explainer
NoExplainer_never(e) == FALSE

\* if (!explainer)
NoExplainer(e) == e = "null"

\* a rejection that also marks the request as cancelled
NoExplainerExit_cancels ==
  <<Ev("status", "Cancelled"),
    Ev("error", "AI is not available due to invalid adapter selection.")>>

\* the body of if (!explainer) { ... return; }
NoExplainerExit ==
  <<Ev("error", "AI is not available due to invalid adapter selection.")>>

\* getConfiguration("vsCodeAI").get<boolean>("enableAI", false), as recorded
\* in the request
ReadFlag(flag) == IF flag THEN "true" ELSE "false"

\* a gate that lets every request through
FeatureDisabled_never(enabled) == FALSE

\* if (!enabled)
FeatureDisabled(enabled) == ~enabled

\* the disabled path writing a status of its own
DisabledStatus_distinct == "Disabled"

\* the status written on the disabled path
DisabledStatus == "Cancelled"

\* the body of if (!enabled) { ... return; }
DisabledExit ==
  <<Ev("log.warn", "AI is disabled in settings."),
    Ev("status", DisabledStatus),
    Ev("warning", "AI is disabled. Enable it in VS Code AI settings.")>>

\* getSelectedText(logger): the text or null, and what it emits
getSelectedText(editor) ==
  IF ~editor.open
    THEN [isNull |-> TRUE, text |-> << >>,
          out |-> <<Ev("log.warn", "No active editor."),
                    Ev("warning", "No active editor.")>>]
  ELSE IF editor.selection = << >>
    THEN [isNull |-> TRUE, text |-> << >>,
          out |-> <<Ev("log.warn", "No code selected."),
                    Ev("warning", "No code selected.")>>]
  ELSE [isNull |-> FALSE, text |-> editor.selection, out |-> << >>]

\* if (!selectedText): null or the empty string
NoSelectedText(sel) == sel.isNull \/ sel.text = << >>

\* an editor check that also turns away an empty document
NoActiveEditor_orEmpty(editor) == ~editor.open \/ editor.text = << >>

\* explainActiveFile without its editor check
NoActiveEditor_unchecked(editor) == FALSE

\* if (!editor) in explainActiveFile
NoActiveEditor(editor) == ~editor.open

\* the body of if (!editor) { ... return; } in explainActiveFile
NoEditorExit ==
  <<Ev("log.warn", "No active editor."),
    Ev("status", "Cancelled"),
    Ev("warning", "No active editor.")>>

\* showInformationMessage(..., { modal: true }, "Yes", "No")
ConsentPrompt(mode) ==
  IF mode = "selection"
    THEN <<Ev("prompt", "Do you want to explain the selected code?")>>
    ELSE <<Ev("prompt", "Do you want to explain the active file?")>>

\* what the modal prompt resolves to; Dismissed is undefined
ConsentAnswers == {"Yes", "No", "Dismissed"}

\* a consent check that only stops on the answer No
ConsentGranted_unlessNo(consent) == consent # "No"

\* the negation of: if (consent !== "Yes")
ConsentGranted(consent) == consent = "Yes"

\* a declined request that also notifies the user
DeclinedExit_warns ==
  <<Ev("status", "Cancelled"), Ev("warning", "Explanation cancelled.")>>

\* the body of if (consent !== "Yes") { ... return; }
DeclinedExit == <<Ev("status", "Cancelled")>>

\* a timeout callback that only updates the status
onTimeout_silent == <<Ev("status", "Cancelled")>>

\* the onTimeout callback both handlers pass to withTimeout
onTimeout ==
  <<Ev("log.warn", "Explanation timed out."),
    Ev("status", "Cancelled"),
    Ev("warning", "Explanation took too long and was stopped.")>>

\* presentExplanation(result, meta); status.set("Completed")
SuccessExit == <<Ev("report", "shown"), Ev("status", "Completed")>>

\* a catch block that renders a report all the same
CatchExit_renders == <<Ev("report", "shown"), Ev("status", "Cancelled")>>

\* a catch block that shows the failure to the user
CatchExit_reports ==
  <<Ev("status", "Cancelled"), Ev("error", "Explanation failed.")>>

\* catch { status.set("Cancelled"); }
CatchExit == <<Ev("status", "Cancelled")>>

\* the report presentExplanation is asked to render
Report(explanation, language, text) ==
  LET meta == Meta(language, text)
  IN  [explanation |-> explanation, language |-> meta.language,
       lines |-> meta.lines, characters |-> meta.characters]

\* ------------------------------------------------------------------------
\* withTimeout
\* ------------------------------------------------------------------------
\* a wait that any later settlement resumes again
RaceSettled_never(wt) == FALSE

\* a promise that has settled ignores every later resolve and reject
RaceSettled(wt) == wt.st # "pending"

\* reject(new Error("TIMEOUT"))
TimeoutRejection == Rejected(TimeoutError)

\* a race that reports every failure of the operation as a timeout
RaceOutcome_masks(wt, settlement) ==
  IF wt.st # "pending" THEN wt
  ELSE IF settlement.st = "rejected" THEN Rejected("TIMEOUT")
  ELSE settlement

\* Promise.race([promise, timeout]): the first settlement is the outcome
RaceOutcome(wt, settlement) ==
  IF RaceSettled(wt) THEN wt ELSE settlement

\* a guard that leaves its timer armed
TimeoutFinally_leaks(timer) == timer

\* finally { if (timer) clearTimeout(timer); }
TimeoutFinally(timer) ==
  IF timer = "armed" THEN "cleared" ELSE timer

\* ------------------------------------------------------------------------
\* The explain command handlers
\* ------------------------------------------------------------------------
\* request r appends the events evs, in order, and becomes rec
Step(r, rec, evs) ==
  /\ req' = [req EXCEPT ![r] = [rec EXCEPT !.out = req[r].out \o evs]]
  /\ status' = StatusAfter(status, evs)
  /\ UNCHANGED <<activated, adapterSetting, explainer, sessionOut,
                 startOut, resolve, present>>

\* invocations are numbered in the order the commands are run
MayStart(r) ==
  /\ activated
  /\ req[r].pc = "idle"
  /\ r > 1 => req[r - 1].pc # "idle"

\* vsCodeAI.explainSelection, up to the await of the consent prompt;
\* enableAI and activeTextEditor are what the host returns at the moment
\* the handler reads them
ExplainSelection(r) ==
  /\ MayStart(r)
  /\ LET me == [req[r] EXCEPT !.mode = "selection"]
     IN  IF NoExplainer(ServingExplainer(explainer, adapterSetting))
           THEN Step(r, [me EXCEPT !.pc = "done"], NoExplainerExit)
         ELSE \E enableAI \in BOOLEAN :
           LET gated == [me EXCEPT !.enabled = ReadFlag(enableAI)]
           IN  IF FeatureDisabled(enableAI)
                 THEN Step(r, [gated EXCEPT !.pc = "done"], DisabledExit)
               ELSE \E activeTextEditor \in Editors :
                 LET seen == [gated EXCEPT !.editor = activeTextEditor]
                     sel == getSelectedText(activeTextEditor)
                 IN  IF NoSelectedText(sel)
                       THEN Step(r, [seen EXCEPT !.pc = "done"],
                                 sel.out \o <<Ev("status", "Cancelled")>>)
                     ELSE Step(r, [seen EXCEPT !.pc = "consent",
                                               !.text = sel.text,
                                               !.consent = "pending"],
                               sel.out \o ConsentPrompt("selection"))

\* vsCodeAI.explainActiveFile, up to the await of the consent prompt
ExplainActiveFile(r) ==
  /\ MayStart(r)
  /\ LET me == [req[r] EXCEPT !.mode = "file"]
     IN  IF NoExplainer(ServingExplainer(explainer, adapterSetting))
           THEN Step(r, [me EXCEPT !.pc = "done"], NoExplainerExit)
         ELSE \E enableAI \in BOOLEAN :
           LET gated == [me EXCEPT !.enabled = ReadFlag(enableAI)]
           IN  IF FeatureDisabled(enableAI)
                 THEN Step(r, [gated EXCEPT !.pc = "done"], DisabledExit)
               ELSE \E activeTextEditor \in Editors :
                 LET seen == [gated EXCEPT !.editor = activeTextEditor]
                 IN  IF NoActiveEditor(activeTextEditor)
                       THEN Step(r, [seen EXCEPT !.pc = "done"],
                                 NoEditorExit)
                     ELSE Step(r, [seen EXCEPT !.pc = "consent",
                                               !.consent = "pending"],
                               ConsentPrompt("file"))

\* the call withTimeout(explainer.explain(text, { language }), 2000, cb),
\* up to its await of Promise.race
Dispatch(r, me, text, language) ==
  Step(r, [me EXCEPT !.pc = "waiting", !.text = text, !.language = language,
                     !.op = Pending, !.deadline = DeadlineMs,
                     !.timer = "armed", !.wt = Pending],
       <<Ev("status", "Explaining"), Ev("explain", language),
         Ev("setTimeout", "armed")>>)

\* the consent prompt resolves and the handler runs on to its next await;
\* activeTextEditor is what the host returns at this moment.  The handler
\* does not read enableAI again: flags are the values of the setting at
\* this moment that are recorded for a request going on to explain(),
\* "unread" alone when the setting is not watched
ConsentAnswered(r, flags) ==
  /\ req[r].pc = "consent"
  /\ \E answer \in ConsentAnswers :
       LET me == [req[r] EXCEPT !.consent = answer]
           go(flag) == [me EXCEPT !.flagAtExplain = flag]
       IN  IF ~ConsentGranted(answer)
             THEN Step(r, [me EXCEPT !.pc = "done"], DeclinedExit)
           ELSE IF me.mode = "file"
             THEN \E flag \in flags :
                    Dispatch(r, go(flag), me.editor.text,
                             me.editor.languageId)
           ELSE \E activeTextEditor \in Editors :
             \* const editor = vscode.window.activeTextEditor!;
             \* editor.document throws when no editor is active any more
             IF ~activeTextEditor.open
               THEN Step(r, [me EXCEPT !.pc = "crashed"],
                         <<Ev("status", "Explaining")>>)
             ELSE \E flag \in flags :
                    Dispatch(r, go(flag), me.text,
                             activeTextEditor.languageId)

\* the prompt is answered; the setting enableAI is not watched
ConsentAnswer(r) == ConsentAnswered(r, {"unread"})

\* the prompt is answered while the setting enableAI has one value or the
\* other, set by the user since the handler read it
ConsentAnswerWatched(r) ==
  ConsentAnswered(r, {ReadFlag(enableAI) : enableAI \in BOOLEAN})

\* a handler that calls explain() again, under a new timer, when the wait
\* ended in a failure
AfterWait_retries(me, wt) ==
  IF wt.st = "fulfilled"
    THEN [rec |-> [me EXCEPT !.pc = "done", !.flagAtExplain = "unread",
                     !.reports = Append(@, Report(wt.value, me.language,
                                                  me.text))],
          out |-> SuccessExit]
    ELSE [rec |-> [me EXCEPT !.op = Pending, !.wt = Pending,
                             !.timer = "armed"],
          out |-> <<Ev("explain", me.language), Ev("setTimeout", "armed")>>]

\* the handler's code after the await of withTimeout, for the outcome wt;
\* the setting's value at the call of explain() is kept only for as long as
\* the handler waits on that call
AfterWait(me, wt) ==
  LET over == [me EXCEPT !.pc = "done", !.flagAtExplain = "unread"]
  IN  IF wt.st = "fulfilled"
        THEN [rec |-> [over EXCEPT
                         !.reports = Append(@, Report(wt.value, me.language,
                                                      me.text))],
              out |-> SuccessExit]
        ELSE [rec |-> over, out |-> CatchExit]

\* the promise returned by explain() settles with the settlement s
OpSettles(r, s) ==
  LET wt == RaceOutcome(req[r].wt, s)
      me == [req[r] EXCEPT !.op = s, !.wt = wt,
                           !.early = (req[r].timer # "fired")]
  IN  IF ~RaceSettled(req[r].wt)
        THEN LET nxt == AfterWait(
                          [me EXCEPT !.timer = TimeoutFinally(@)], wt)
             IN  Step(r, nxt.rec, nxt.out)
        ELSE Step(r, me, << >>)

\* explain() fulfils with the explanation of the local explainer
OpFulfil(r) ==
  /\ req[r].op.st = "pending"
  /\ OpSettles(r, Fulfilled(LocalExplain(req[r].text, req[r].language)))

\* explain() rejects
OpReject(r) ==
  /\ req[r].op.st = "pending"
  /\ \E e \in ExplainErrors : OpSettles(r, Rejected(e))

\* the timer set by withTimeout fires: onTimeout(); reject(TIMEOUT)
TimerFire(r) ==
  /\ req[r].timer = "armed"
  /\ LET wt == RaceOutcome(req[r].wt, TimeoutRejection)
         me == [req[r] EXCEPT !.timer = "fired", !.cbCalls = @ + 1,
                              !.wt = wt]
     IN  IF ~RaceSettled(req[r].wt)
           THEN LET nxt == AfterWait(
                             [me EXCEPT !.timer = TimeoutFinally(@)], wt)
                IN  Step(r, nxt.rec, onTimeout \o nxt.out)
           ELSE Step(r, me, onTimeout)

Next ==
  \/ Activate
  \/ StartCommand
  \/ \E r \in Requests : ExplainSelection(r)
  \/ \E r \in Requests : ExplainActiveFile(r)
  \/ \E r \in Requests : ConsentAnswer(r)
  \/ \E r \in Requests : OpFulfil(r)
  \/ \E r \in Requests : OpReject(r)
  \/ \E r \in Requests : TimerFire(r)

Spec == Init /\ [][Next]_vars

\* the host runs every timer that stays armed
FairSpec == Spec /\ \A r \in Requests : WF_vars(TimerFire(r))

\* ------------------------------------------------------------------------
\* Activation and the explain commands with a user who edits the settings
\* vsCodeAI.adapter and vsCodeAI.enableAI in between
\* ------------------------------------------------------------------------
\* the user gives vsCodeAI.adapter another value after activation
SetAdapter ==
  /\ activated
  /\ \E id \in AdapterIds \ {adapterSetting} : adapterSetting' = id
  /\ UNCHANGED <<activated, explainer, status, sessionOut, startOut, req,
                 resolve, present>>

SettingNext ==
  \/ Activate
  \/ SetAdapter
  \/ \E r \in Requests : ExplainSelection(r)
  \/ \E r \in Requests : ExplainActiveFile(r)
  \/ \E r \in Requests : ConsentAnswerWatched(r)
  \/ \E r \in Requests : OpFulfil(r)
  \/ \E r \in Requests : OpReject(r)
  \/ \E r \in Requests : TimerFire(r)

SettingSpec == Init /\ [][SettingNext]_vars

\* ------------------------------------------------------------------------
\* getActiveAdapter on its own, over every registry and setting
\* ------------------------------------------------------------------------
RegistryInit ==
  /\ activated = FALSE
  /\ adapterSetting = "local"
  /\ explainer = "null"
  /\ status = "Ready"
  /\ sessionOut = << >>
  /\ startOut = << >>
  /\ req = [r \in Requests |-> IdleRequest]
  /\ \E l \in AdapterLists, id \in AdapterIds \cup {NotConfigured} :
       resolve = [adapters |-> l, setting |-> id, result |-> NoResult]
  /\ present = NoPresent

\* registry.getActiveAdapter() with the setting as configured
Resolve ==
  /\ resolve.result = NoResult
  /\ resolve' =
       [resolve EXCEPT !.result =
          getActiveAdapter(resolve.adapters, SelectedId(resolve.setting))]
  /\ UNCHANGED <<activated, adapterSetting, explainer, status, sessionOut,
                 startOut, req, present>>

RegistryNext == Resolve

RegistrySpec == RegistryInit /\ [][RegistryNext]_vars

\* ------------------------------------------------------------------------
\* LocalExplainerStub.explain on its own, over every short text
\* ------------------------------------------------------------------------
\* the session part of the state, untouched by the functions on their own
Quiet ==
  /\ activated = FALSE
  /\ adapterSetting = "local"
  /\ explainer = "null"
  /\ status = "Ready"
  /\ sessionOut = << >>
  /\ startOut = << >>
  /\ req = [r \in Requests |-> IdleRequest]
  /\ resolve = NoResolve

ExplainerInit ==
  /\ Quiet
  /\ \E t \in Texts(MaxText), e \in {ed \in Editors : ed.open} :
       present = [NoPresent EXCEPT !.input = t, !.language = e.languageId]

\* await explainer.explain(input, { language }) on the local explainer
ExplainLocal ==
  /\ present.result = Unset
  /\ present' =
       [present EXCEPT
          !.result = Fulfilled(LocalExplain(present.input, present.language))]
  /\ UNCHANGED <<activated, adapterSetting, explainer, status, sessionOut,
                 startOut, req, resolve>>

ExplainerNext == ExplainLocal

ExplainerSpec == ExplainerInit /\ [][ExplainerNext]_vars

\* ------------------------------------------------------------------------
\* presentExplanation on its own: any explanation, any handler input
\* ------------------------------------------------------------------------
PresentInit ==
  /\ Quiet
  /\ \E in \in HandlerInputs, x \in ExplanationTexts :
       present = [NoPresent EXCEPT !.input = in.text,
                                   !.language = in.language,
                                   !.explanation = x]

\* presentExplanation(result, { language, lines, characters }) as the
\* handlers call it for the text they sent to explain()
Present ==
  /\ present.output = << >>
  /\ present' =
       [present EXCEPT
          !.output = presentExplanation(
                       present.explanation,
                       Meta(present.language, present.input))]
  /\ UNCHANGED <<activated, adapterSetting, explainer, status, sessionOut,
                 startOut, req, resolve>>

PresentNext == Present

PresentSpec == PresentInit /\ [][PresentNext]_vars

\* ------------------------------------------------------------------------
\* limitExplanation on its own, applied to a text and then to its result
\* ------------------------------------------------------------------------
LimitInit ==
  /\ Quiet
  /\ \E x \in ExplanationTexts :
       present = [NoPresent EXCEPT !.explanation = x]

\* limitExplanation(explanation)
LimitOnce ==
  /\ ~present.limited.applied
  /\ present' =
       [present EXCEPT
          !.limited = Limit(limitExplanation(present.explanation))]
  /\ UNCHANGED <<activated, adapterSetting, explainer, status, sessionOut,
                 startOut, req, resolve>>

\* limitExplanation(limited.text)
LimitAgain ==
  /\ present.limited.applied /\ ~present.again.applied
  /\ present' =
       [present EXCEPT
          !.again = Limit(limitExplanation(present.limited.text))]
  /\ UNCHANGED <<activated, adapterSetting, explainer, status, sessionOut,
                 startOut, req, resolve>>

LimitNext ==
  \/ LimitOnce
  \/ LimitAgain

LimitSpec == LimitInit /\ [][LimitNext]_vars

\* ------------------------------------------------------------------------
\* Properties
\* ------------------------------------------------------------------------
\* the last status request r wrote, "" when it wrote none
LastStatus(r) == StatusAfter("", req[r].out)

\* the statuses request r wrote, in order
Statuses(r) == Details(req[r].out, "status")

\* request r called explain()
Explained(r) == Count(req[r].out, "explain") > 0

\* request r showed a warning or an error notification
Notified(r) ==
  Count(req[r].out, "warning") + Count(req[r].out, "error") > 0

\* the deadline of request r elapsed while explain() was unsettled
TimedOut(r) == req[r].timer = "fired" /\ ~req[r].early

\* C1: explain() is invoked only by a request that itself read
\* enableAI = true and itself received the answer Yes to its own consent
\* prompt; another request's consent authorises nothing.
C1_ExplainNeedsOwnGateAndConsent ==
  \A r \in Requests :
    Explained(r) => req[r].enabled = "true" /\ req[r].consent = "Yes"

\* one request explained after Yes while another, declined, did not
C1_Witness ==
  \E r, q \in Requests :
    /\ r # q
    /\ Explained(r) /\ req[r].consent = "Yes"
    /\ req[q].consent \in {"No", "Dismissed"} /\ ~Explained(q)

\* C2: a request that read the enable flag as false ends with a warning,
\* never shows a consent prompt and never calls explain(), whatever the
\* selection or active editor is.
C2_DisabledBlocks ==
  \A r \in Requests :
    req[r].enabled = "false" =>
      /\ req[r].pc = "done"
      /\ Count(req[r].out, "warning") = 1
      /\ Count(req[r].out, "prompt") = 0
      /\ ~Explained(r)
      /\ req[r].timer = "none"

\* a selection request was stopped by the flag
C2_Witness ==
  \E r \in Requests :
    /\ req[r].enabled = "false" /\ req[r].mode = "selection"
    /\ Count(req[r].out, "warning") = 1 /\ req[r].pc = "done"

\* C3 as stated: the status written by a request that found the enable
\* flag false is Disabled.
C3_WritesDisabled ==
  \A r \in Requests :
    req[r].enabled = "false" => Statuses(r) = <<"Disabled">>

\* C3 as amended: the only status written by a request that found the
\* enable flag false is Cancelled.
C3_WritesCancelled ==
  \A r \in Requests :
    req[r].enabled = "false" => Statuses(r) = <<"Cancelled">>

\* a whole-file request stopped by the flag, its status on display
C3_Witness ==
  \E r \in Requests :
    /\ req[r].enabled = "false" /\ req[r].mode = "file"
    /\ status = "Cancelled"

\* request r passed the gate and found no input text
NoInput(r) ==
  /\ req[r].enabled = "true"
  /\ \/ ~req[r].editor.open
     \/ req[r].mode = "selection" /\ req[r].editor.selection = << >>

\* C4: with the flag true and no input text (no active editor in either
\* mode, an empty selection in selection mode) the request writes only the
\* status Cancelled, warns, shows no consent prompt and never calls
\* explain().
C4_NoInputCancels ==
  \A r \in Requests :
    NoInput(r) =>
      /\ req[r].pc = "done"
      /\ Statuses(r) = <<"Cancelled">>
      /\ Count(req[r].out, "warning") = 1
      /\ Count(req[r].out, "prompt") = 0
      /\ ~Explained(r)

\* both modes met a missing input: no editor, and an empty selection
C4_Witness ==
  \E r, q \in Requests :
    /\ NoInput(r) /\ req[r].mode = "file"
    /\ NoInput(q) /\ req[q].mode = "selection" /\ req[q].editor.open

\* C5: only the answer Yes leads to Explaining; after No or Dismissed the
\* request ends Cancelled without explain(), timer, warning or error.
C5_OnlyYesExplains ==
  \A r \in Requests :
    /\ (\E i \in 1..Len(Statuses(r)) : Statuses(r)[i] = "Explaining")
         => req[r].consent = "Yes"
    /\ req[r].consent \in {"No", "Dismissed"} =>
         /\ req[r].pc = "done"
         /\ Statuses(r) = <<"Cancelled">>
         /\ ~Explained(r)
         /\ Count(req[r].out, "setTimeout") = 0 /\ req[r].timer = "none"
         /\ ~Notified(r)

\* one prompt was dismissed and one answered No
C5_Witness ==
  \E r, q \in Requests :
    req[r].consent = "Dismissed" /\ req[q].consent = "No"

\* C6: when explain() fulfils before the deadline the request's last
\* status write is Completed, one report is rendered and the timeout
\* callback never runs.
C6_SuccessCompletes ==
  \A r \in Requests :
    req[r].early /\ req[r].op.st = "fulfilled" =>
      /\ req[r].pc = "done"
      /\ LastStatus(r) = "Completed"
      /\ Count(req[r].out, "report") = 1 /\ Len(req[r].reports) = 1
      /\ req[r].cbCalls = 0
      /\ CountV(req[r].out, "log.warn", "Explanation timed out.") = 0

\* a selection request completed with its report
C6_Witness ==
  \E r \in Requests :
    /\ req[r].early /\ req[r].op.st = "fulfilled"
    /\ req[r].mode = "selection" /\ status = "Completed"

\* C7: when the deadline elapses first the request ends Cancelled with the
\* timeout log entry and warning and never renders a report, also when
\* explain() settles afterwards.
C7_TimeoutCancels ==
  \A r \in Requests :
    TimedOut(r) =>
      /\ req[r].pc = "done"
      /\ LastStatus(r) = "Cancelled"
      /\ CountV(req[r].out, "log.warn", "Explanation timed out.") = 1
      /\ CountV(req[r].out, "warning",
                "Explanation took too long and was stopped.") = 1
      /\ Count(req[r].out, "report") = 0 /\ req[r].reports = << >>

\* explain() fulfilled after the timeout and nothing was rendered
C7_Witness ==
  \E r \in Requests :
    TimedOut(r) /\ req[r].op.st = "fulfilled" /\ req[r].reports = << >>

\* C8: when explain() rejects before the deadline the request ends
\* Cancelled, renders nothing, the timeout callback does not run and the
\* user is shown no warning or error.
C8_RejectionCancels ==
  \A r \in Requests :
    req[r].early /\ req[r].op.st = "rejected" =>
      /\ req[r].pc = "done"
      /\ LastStatus(r) = "Cancelled"
      /\ Count(req[r].out, "report") = 0 /\ req[r].reports = << >>
      /\ req[r].cbCalls = 0
      /\ ~Notified(r)

\* explain() rejected while the timer was armed
C8_Witness ==
  \E r \in Requests :
    /\ req[r].early /\ req[r].op.st = "rejected"
    /\ req[r].op.error = "REJECTED" /\ req[r].timer = "cleared"

\* C9: when the operation settles before the deadline, withTimeout
\* settles with exactly the operation's outcome and the callback is never
\* invoked.
C9_EarlyOutcomeUnchanged ==
  \A r \in Requests :
    req[r].early => req[r].wt = req[r].op /\ req[r].cbCalls = 0

\* both a value and an error came through withTimeout
C9_Witness ==
  \E r, q \in Requests :
    /\ req[r].early /\ req[r].wt.st = "fulfilled"
    /\ req[r].wt.value.characters > 0
    /\ req[q].early /\ req[q].wt.st = "rejected"
    /\ req[q].wt.error = "INVALID_INPUT"

\* C10: when the deadline elapses first the callback is invoked exactly
\* once and withTimeout fails with TIMEOUT; a later settlement of the
\* operation changes neither.
C10_TimeoutIsFinal ==
  \A r \in Requests :
    TimedOut(r) => req[r].cbCalls = 1 /\ req[r].wt = TimeoutRejection

\* the operation rejected after withTimeout had failed with TIMEOUT
C10_Witness ==
  \E r \in Requests :
    /\ TimedOut(r) /\ req[r].op.st = "rejected"
    /\ req[r].wt.error = TimeoutError

\* request r has written the status Explaining
WroteExplaining(r) ==
  \E i \in 1..Len(Statuses(r)) : Statuses(r)[i] = "Explaining"

\* C11: a withTimeout invocation that has returned, by success, by the
\* operation's failure or by timeout, has no armed timer left.
C11_NoTimerAfterReturn ==
  \A r \in Requests :
    req[r].wt.st \in {"fulfilled", "rejected"} =>
      req[r].timer \in {"fired", "cleared"}

\* one invocation returned a value with its timer cleared, another timed out
C11_Witness ==
  \E r, q \in Requests :
    /\ req[r].wt.st = "fulfilled" /\ req[r].timer = "cleared"
    /\ req[q].wt = TimeoutRejection /\ req[q].timer = "fired"

\* C12: every request that has written Explaining eventually writes a
\* terminal status, Completed or Cancelled, when armed timers are run.
C12_ExplainingTerminates ==
  \A r \in Requests :
    WroteExplaining(r) ~> (LastStatus(r) \in {"Completed", "Cancelled"})

\* getActiveAdapter has been applied to the registry under examination
Resolved == resolve.result # NoResult

\* the positions of the registry whose adapter has the id
Registered(id) ==
  {i \in 1..Len(resolve.adapters) : resolve.adapters[i].id = id}

\* C13: with a configured id, resolution fails with "not registered" when
\* no registered adapter has the id, fails with "not available" when the
\* adapter with the id is unavailable, and otherwise returns exactly that
\* adapter; for every registry and every id.
C13_ConfiguredResolution ==
  Resolved /\ resolve.setting # NotConfigured =>
    /\ Registered(resolve.setting) = {} =>
         ~resolve.result.ok /\ resolve.result.error = "not registered"
    /\ \A i \in Registered(resolve.setting) :
         IF resolve.adapters[i].isAvailable
           THEN /\ resolve.result.ok
                /\ resolve.result.adapter = resolve.adapters[i]
           ELSE /\ ~resolve.result.ok
                /\ resolve.result.error = "not available"

\* a configured id that names the second, unavailable adapter of two
C13_Witness ==
  /\ Resolved /\ resolve.setting = "remote"
  /\ Len(resolve.adapters) = 2
  /\ resolve.adapters[2].id = "remote" /\ ~resolve.adapters[2].isAvailable
  /\ resolve.result.error = "not available"

\* the first available adapter of the registry, in insertion order
FirstAvailable ==
  {i \in 1..Len(resolve.adapters) :
     /\ resolve.adapters[i].isAvailable
     /\ \A j \in 1..(i - 1) : ~resolve.adapters[j].isAvailable}

ActivationFailed == activated /\ Count(sessionOut, "error") > 0

\* the log entries request r wrote
Logs(r) == Count(req[r].out, "log.info") + Count(req[r].out, "log.warn")

\* C15: after a failed adapter resolution every explain request is
\* rejected at once with an error notification: it reads neither the flag
\* nor any text, shows no prompt, starts no timer and calls no explainer.
C15_FailedActivationRejects ==
  ActivationFailed =>
    \A r \in Requests :
      req[r].pc # "idle" =>
        /\ req[r].pc = "done"
        /\ req[r].out = NoExplainerExit
        /\ req[r].enabled = "unread" /\ req[r].text = << >>
        /\ req[r].consent = "none"
        /\ req[r].timer = "none" /\ req[r].op = Unset

\* both commands were rejected in a session whose activation failed
C15_Witness ==
  /\ ActivationFailed
  /\ \E r, q \in Requests :
       /\ req[r].mode = "selection" /\ req[r].pc = "done"
       /\ req[q].mode = "file" /\ req[q].pc = "done"

\* C16: after a failed adapter resolution the status is the disabled one
\* in every later state, whatever commands are run.
C16_StaysDisabled ==
  ActivationFailed => status = "Disabled (invalid adapter)"

\* C17: no failure escapes an explain command handler; the handler always
\* returns normally.
C17_NoEscape ==
  \A r \in Requests : req[r].pc # "crashed"

\* request r ended in one of the failures: feature disabled, no input,
\* no explainer, timeout, explainer failure
Failed(r) ==
  /\ req[r].pc = "done"
  /\ \/ req[r].enabled = "false"
     \/ NoInput(r)
     \/ req[r].out = NoExplainerExit
     \/ TimedOut(r)
     \/ req[r].early /\ req[r].op.st = "rejected"

\* C18: every failing request sets the status to Disabled or Cancelled
\* and writes exactly one log entry.
C18_OneLogPerFailure ==
  \A r \in Requests :
    Failed(r) =>
      /\ LastStatus(r) \in {"Disabled", "Cancelled"}
      /\ Logs(r) = 1

\* C19: every lifecycle transition of a request both writes a log entry
\* and updates the status: a step of a request writes a status exactly
\* when it writes a log entry, and every step that moves the request on
\* writes a status (for requests that found an explainer).
C19_TransitionsLoggedAndShown ==
  [][\A r \in Requests :
       LET logged == Count(req'[r].out, "log.info")
                       + Count(req'[r].out, "log.warn") > Logs(r)
           shown == Count(req'[r].out, "status")
                      > Count(req[r].out, "status")
       IN  req'[r].enabled # "unread" =>
             /\ logged <=> shown
             /\ req'[r].pc # req[r].pc => shown]_vars

\* C20: a request suspended on its consent prompt has written the status
\* WaitingForConsent, and nothing after it.
C20_WaitingForConsentShown ==
  \A r \in Requests :
    req[r].pc = "consent" => LastStatus(r) = "WaitingForConsent"

\* request r is the only one invoked so far and no other command has run
Alone(r) ==
  /\ req[r].pc # "idle"
  /\ \A q \in Requests \ {r} : req[q].pc = "idle"
  /\ startOut = << >>

\* the lifecycle state request r entered by its most recent transition
LifecycleState(r) ==
  CASE req[r].pc = "consent" -> "WaitingForConsent"
    [] req[r].pc \in {"waiting", "crashed"} -> "Explaining"
    [] OTHER -> LastStatus(r)

\* C21: with a single request in flight and no other command run, the
\* status shows the state that request entered by its most recent
\* transition, at every moment (for a request that found an explainer).
C21_StatusIsLastTransition ==
  \A r \in Requests :
    Alone(r) /\ req[r].enabled # "unread" => status = LifecycleState(r)

\* the events request r emits in the step
NewEvents(r) ==
  SubSeq(req'[r].out, Len(req[r].out) + 1, Len(req'[r].out))

\* C22: every step of a request leaves every other request, its timer and
\* its outcome included, as it was, and the status after the step is the
\* last status the step wrote, or the status before it when it wrote none:
\* the visible status is the one written last by either request.
C22_OwnOutcomeSharedStatus ==
  [][\A r \in Requests :
       req'[r] # req[r] =>
         /\ \A q \in Requests \ {r} : req'[q] = req[q]
         /\ LET ws == Details(NewEvents(r), "status")
            IN  status' = IF ws = << >> THEN status ELSE ws[Len(ws)]]_vars

\* the first request timed out while the second, started before that, is
\* still waiting under its own armed timer: the status shows the first
\* request's Cancelled, written after the second's Explaining
C22_Witness ==
  \E r, q \in Requests :
    /\ r # q
    /\ TimedOut(r) /\ req[r].pc = "done"
    /\ req[q].pc = "waiting" /\ req[q].timer = "armed"
    /\ req[q].op.st = "pending"
    /\ status = "Cancelled"

\* C23: within one request Explaining is written first and only after the
\* answer Yes, Completed only after Explaining, Cancelled only after
\* Explaining or as the only write of an early exit, and no request writes
\* both Completed and Cancelled.
C23_StatusOrder ==
  \A r \in Requests :
    LET s == Statuses(r)
    IN  \A i \in 1..Len(s) :
          /\ s[i] \in {"Explaining", "Completed", "Cancelled"}
          /\ s[i] = "Explaining" => i = 1 /\ req[r].consent = "Yes"
          /\ s[i] = "Completed" => i > 1 /\ s[1] = "Explaining"
          /\ s[i] = "Cancelled" =>
               \/ Len(s) = 1
               \/ i > 1 /\ s[1] = "Explaining"
          /\ \A j \in 1..Len(s) :
               ~(s[i] = "Completed" /\ s[j] = "Cancelled")

\* one request timed out and its explain() fulfilled afterwards, another
\* completed
C23_Witness ==
  \E r, q \in Requests :
    /\ Statuses(r) = <<"Explaining", "Cancelled", "Cancelled">>
    /\ req[r].op.st = "fulfilled"
    /\ Statuses(q) = <<"Explaining", "Completed">>

\* request r rendered a report
Rendered(r) == Count(req[r].out, "report") > 0 \/ req[r].reports # << >>

\* C24: a report is rendered only by a request whose guarded explain()
\* fulfilled before the deadline and which goes from Explaining to
\* Completed; a request that ends Cancelled or Disabled renders none.
C24_ReportOnlyOnCompleted ==
  \A r \in Requests :
    /\ Rendered(r) =>
         /\ req[r].early /\ req[r].op.st = "fulfilled"
         /\ Statuses(r) = <<"Explaining", "Completed">>
    /\ LastStatus(r) \in {"Cancelled", "Disabled"} => ~Rendered(r)

\* one request rendered its report, another failed in the explainer and
\* rendered none
C24_Witness ==
  \E r, q \in Requests :
    /\ Rendered(r) /\ LastStatus(r) = "Completed"
    /\ req[q].early /\ req[q].op.st = "rejected" /\ ~Rendered(q)

\* C25: a request calls explain() at most once and starts at most one
\* timer; after a timeout or a failure of the explainer it has ended.
C25_SingleAttempt ==
  \A r \in Requests :
    /\ Count(req[r].out, "explain") <= 1
    /\ Count(req[r].out, "setTimeout") <= 1
    /\ TimedOut(r) \/ (req[r].early /\ req[r].op.st = "rejected") =>
         /\ req[r].pc = "done"
         /\ req[r].timer \in {"fired", "cleared"}
         /\ Count(req[r].out, "explain") = 1
         /\ Count(req[r].out, "setTimeout") = 1

\* one request ended by a timeout and one by a failure of the explainer
C25_Witness ==
  \E r, q \in Requests :
    /\ TimedOut(r) /\ req[r].pc = "done"
    /\ req[q].early /\ req[q].op.st = "rejected" /\ req[q].pc = "done"

\* C26: whenever a request is waiting on a call of explain(), the setting
\* vsCodeAI.enableAI was true at the moment of the call.
C26_ExplainOnlyWhileEnabled ==
  \A r \in Requests :
    req[r].pc = "waiting" => req[r].flagAtExplain = "true"

\* the local explainer has been applied to the text under examination
LocalExplained == present.result # Unset

\* C27: the local explainer never fails, and for every text it reports as
\* line count the number of segments between LF or CRLF line breaks, a
\* trailing line break adding an empty segment, and as character count the
\* length of the text; the empty text gives 1 line and 0 characters.
C27_LocalExplainCounts ==
  LocalExplained =>
    LET t == present.input
        v == present.result.value
    IN  /\ present.result.st = "fulfilled"
        /\ v.lines = Len(Split(t))
        /\ v.characters = Len(t)
        /\ t = << >> => v.lines = 1 /\ v.characters = 0
        /\ t # << >> /\ t[Len(t)] = "LF" =>
             v.lines = Len(Split(SubSeq(t, 1, Len(t) - 1))) + 1

\* a text with a CRLF break and a trailing LF: three lines, four characters
C27_Witness ==
  /\ LocalExplained
  /\ present.input = <<"c", "CR", "LF", "LF">>
  /\ present.result.value.lines = 3
  /\ present.result.value.characters = 4

\* the explanation under examination has been presented
Presented == present.output # << >>

\* the explanation as it is shown, after limiting
LimitedText == present.output[4].text

\* the truncation notice is part of the output
Notice ==
  \E i \in 1..Len(present.output) :
    present.output[i] = Literal("[Output truncated]")

\* the first MAX_EXPLANATION_CHARS characters of a text
FirstChars(x) ==
  IF Len(x) > MAX_EXPLANATION_CHARS
    THEN SubSeq(x, 1, MAX_EXPLANATION_CHARS) ELSE x

\* the first MAX_EXPLANATION_LINES lines of a text, separated by LF
FirstLines(x) ==
  IF Len(Split(x)) > MAX_EXPLANATION_LINES
    THEN Join(SubSeq(Split(x), 1, MAX_EXPLANATION_LINES)) ELSE x

\* C28: an explanation of more than 500 characters is shown with at most
\* 500 characters and the truncation notice; one of at most 500 characters
\* and more than 12 lines is shown with at most 12 lines and the notice;
\* the characters are cut first and the lines of what is left after that,
\* and the notice is shown exactly when one of the two cuts was made.
C28_Truncation ==
  Presented =>
    LET x == present.explanation
    IN  /\ Len(x) > MAX_EXPLANATION_CHARS =>
             Len(LimitedText) <= MAX_EXPLANATION_CHARS /\ Notice
        /\ Len(x) <= MAX_EXPLANATION_CHARS
             /\ Len(Split(x)) > MAX_EXPLANATION_LINES =>
               Len(Split(LimitedText)) <= MAX_EXPLANATION_LINES /\ Notice
        /\ LimitedText = FirstLines(FirstChars(x))
        /\ Notice <=>
             \/ Len(x) > MAX_EXPLANATION_CHARS
             \/ Len(Split(FirstChars(x))) > MAX_EXPLANATION_LINES

\* an explanation cut to 500 characters and then to 12 lines, the CRLF
\* breaks of which became LF
C28_Witness ==
  /\ Presented /\ Notice
  /\ Len(present.explanation) > MAX_EXPLANATION_CHARS
  /\ Len(Split(FirstChars(present.explanation))) > MAX_EXPLANATION_LINES
  /\ Len(Split(LimitedText)) = MAX_EXPLANATION_LINES
  /\ Len(LimitedText) < MAX_EXPLANATION_CHARS - MAX_EXPLANATION_LINES

\* C29: an explanation of at most 500 characters and at most 12 lines is
\* shown exactly as it is and without the truncation notice, and the
\* notice is shown only for an explanation that exceeds one of the limits.
C29_WithinLimitsUnchanged ==
  Presented =>
    LET x == present.explanation
        within == /\ Len(x) <= MAX_EXPLANATION_CHARS
                  /\ Len(Split(x)) <= MAX_EXPLANATION_LINES
    IN  /\ within => LimitedText = x /\ ~Notice
        /\ Notice => ~within

\* an explanation of exactly 500 characters in exactly 12 lines, shown
\* whole
C29_Witness ==
  /\ Presented /\ ~Notice
  /\ Len(present.explanation) = MAX_EXPLANATION_CHARS
  /\ Len(Split(present.explanation)) = MAX_EXPLANATION_LINES
  /\ LimitedText = present.explanation

\* C30: every report is the explanation block, then the truncation notice
\* if the explanation was truncated, then the metadata block, and the line
\* and character counts of the metadata are those of the text sent to the
\* explainer, whatever was cut from the explanation.
C30_ReportOrderAndMetadata ==
  Presented =>
    LET o == present.output
        n == Len(o)
        t == present.input
    IN  /\ n \in {9, 11}
        /\ SubSeq(o, 1, 3) = <<Literal("=== AI Explanation ==="),
                               Literal(""), Literal("Summary:")>>
        /\ o[4].k = "text"
        /\ n = 11 <=> Notice
        /\ Notice => o[5] = Literal("") /\ o[6] = Literal("[Output truncated]")
        /\ SubSeq(o, n - 4, n) =
             <<Literal(""), Literal("Metadata:"),
               LanguageLine(present.language),
               LinesLine(Len(Split(t))), CharactersLine(Len(t))>>

\* a truncated explanation shown with the counts of the three-character,
\* two-line text that was explained
C30_Witness ==
  /\ Presented /\ Notice
  /\ present.input = <<"c", "LF", "c">>
  /\ present.output[10] = LinesLine(2)
  /\ present.output[11] = CharactersLine(3)
  /\ Len(Split(LimitedText)) = MAX_EXPLANATION_LINES

\* request r was rejected for want of an explainer
RejectedNoExplainer(r) == req[r].out = NoExplainerExit

\* C31: the explainer is fixed by activation: whatever value the adapter
\* setting is given afterwards, the explainer stays the one activation
\* resolved (none after a failed activation), and a request is rejected
\* for want of an explainer exactly when activation failed.
C31_ResolvedOnce ==
  activated =>
    /\ explainer = IF ActivationFailed THEN "null" ELSE "LocalExplainerStub"
    /\ \A r \in Requests :
         req[r].pc # "idle" => (RejectedNoExplainer(r) <=> ActivationFailed)

\* activation resolved the local adapter, the setting now names an
\* adapter that is not registered, and a request is waiting on explain()
C31_Witness ==
  /\ activated /\ ~ActivationFailed
  /\ adapterSetting = "remote"
  /\ \E r \in Requests : req[r].pc = "waiting" /\ req[r].op.st = "pending"

\* C32: only the local adapter is registered and there is no fallback:
\* activation writes Ready and captures an explainer exactly when the
\* configured id is "local"; for every other id it logs that the adapter
\* is not registered, writes the disabled status, shows an error and
\* captures no explainer.
C32_OnlyLocalResolves ==
  activated =>
    IF adapterSetting = "local"
      THEN /\ explainer = "LocalExplainerStub"
           /\ Details(sessionOut, "status") = <<"Ready">>
           /\ Count(sessionOut, "error") = 0
      ELSE /\ explainer = "null"
           /\ Details(sessionOut, "status") = <<"Disabled (invalid adapter)">>
           /\ Details(sessionOut, "log.warn") = <<"not registered">>
           /\ Count(sessionOut, "error") = 1

\* activation with the id of the mock remote adapter configured
C32_Witness ==
  /\ activated /\ adapterSetting = "remote-mock"
  /\ explainer = "null"
  /\ status = "Disabled (invalid adapter)"

\* request r has written the status Completed
WroteCompleted(r) == CountV(req[r].out, "status", "Completed") > 0

\* C33: a request that has written Completed has ended with that write:
\* its timer is cleared and can no longer fire, its timeout callback has
\* not run and will not, and nothing follows the Completed write in what
\* the request emitted.
C33_CompletedIsFinal ==
  \A r \in Requests :
    WroteCompleted(r) =>
      /\ req[r].pc = "done"
      /\ req[r].timer = "cleared" /\ req[r].cbCalls = 0
      /\ req[r].out[Len(req[r].out)] = Ev("status", "Completed")
      /\ CountV(req[r].out, "log.warn", "Explanation timed out.") = 0
      /\ Count(req[r].out, "warning") = 0

\* a request completed and stays so while another one has timed out since
\* or before
C33_Witness ==
  \E r, q \in Requests :
    /\ WroteCompleted(r) /\ req[r].timer = "cleared"
    /\ TimedOut(q) /\ req[q].cbCalls = 1

\* C34: a selection request that got the answer Yes passes to explain(),
\* and shows in its report, the language of the document its text was
\* selected in, and its handler does not fail, whatever the active editor
\* is when the prompt is answered.
C34_LanguageOfSelection ==
  \A r \in Requests :
    req[r].mode = "selection" /\ req[r].consent = "Yes" =>
      /\ req[r].pc # "crashed"
      /\ Explained(r) => req[r].language = req[r].editor.languageId
      /\ \A i \in 1..Len(req[r].reports) :
           req[r].reports[i].language = req[r].editor.languageId

\* C35: in a session whose activation failed the status is what
\* activation, or the start command after it, wrote, however many explain
\* requests were rejected, and a rejected request emitted one error
\* notification and nothing else: no status, no log entry.
C35_RejectionLeavesStatusAndLog ==
  ActivationFailed =>
    /\ status = IF startOut = << >> THEN "Disabled (invalid adapter)"
                ELSE "Ready"
    /\ \A r \in Requests :
         req[r].pc # "idle" =>
           /\ Len(req[r].out) = 1 /\ Count(req[r].out, "error") = 1
           /\ Statuses(r) = << >> /\ Logs(r) = 0

\* every request of a session whose activation failed was rejected and
\* the status is still the one activation wrote
C35_Witness ==
  /\ ActivationFailed /\ startOut = << >>
  /\ \A r \in Requests : RejectedNoExplainer(r)
  /\ status = "Disabled (invalid adapter)"

\* C36: a whole-file request that read the flag as true and found an
\* open editor shows the consent prompt, empty document or not; on Yes it
\* passes the document's text to explain(), and when that fulfils in time
\* it completes with one report, which for the empty document counts 1
\* line and 0 characters.
C36_EmptyFileIsExplained ==
  \A r \in Requests :
    req[r].mode = "file" /\ req[r].enabled = "true" /\ req[r].editor.open =>
      /\ Count(req[r].out, "prompt") = 1
      /\ req[r].consent = "Yes" =>
           Explained(r) /\ req[r].text = req[r].editor.text
      /\ req[r].early /\ req[r].op.st = "fulfilled" =>
           /\ LastStatus(r) = "Completed"
           /\ Len(req[r].reports) = 1
           /\ req[r].editor.text = << >> =>
                /\ req[r].reports[1].lines = 1
                /\ req[r].reports[1].characters = 0

\* the empty document was explained and its report shown
C36_Witness ==
  \E r \in Requests :
    /\ req[r].mode = "file" /\ req[r].editor.open
    /\ req[r].editor.text = << >>
    /\ Len(req[r].reports) = 1 /\ req[r].reports[1].lines = 1
    /\ status = "Completed"

\* C37: limitExplanation applied to its own result returns the same text
\* and reports no truncation: the result of one application is at most
\* 500 characters and at most 12 lines long.
C37_LimitIdempotent ==
  present.again.applied =>
    /\ present.again.text = present.limited.text
    /\ ~present.again.truncated
    /\ Len(present.limited.text) <= MAX_EXPLANATION_CHARS
    /\ Len(Split(present.limited.text)) <= MAX_EXPLANATION_LINES

\* a text cut in characters and in lines, its CRLF breaks replaced, came
\* back unchanged from the second application
C37_Witness ==
  /\ present.again.applied /\ present.limited.truncated
  /\ Len(present.explanation) > MAX_EXPLANATION_CHARS
  /\ Len(present.limited.text)
       < MAX_EXPLANATION_CHARS - MAX_EXPLANATION_LINES
  /\ \E i \in 1..Len(present.explanation) : present.explanation[i] = "CR"
  /\ present.again.text = present.limited.text

====
